---- MODULE Spec2Model ----
(***************************************************************************)
(* State-machine model of the NT4 client session of nt4-wasm (src/lib.rs). *)
(*                                                                         *)
(* The session is the thread-local STATE: State.  Every socket event,      *)
(* timer and API call is one non-overlapping invocation on the event loop, *)
(* so each handler is one atomic action.  The WebSocket and the window     *)
(* timers are the environment: a socket is "connecting", then "open", and  *)
(* ends "closed"; a failure fires an error event directly followed by a    *)
(* close event ("failed" is the state between the two).                    *)
(*                                                                         *)
(* Spec is the session.  ClockSpec runs the timesync reply handler and     *)
(* send_data on an open socket with times on both sides of 2^31 us.        *)
(* LibSpec applies the pure functions of types.rs, binary.rs and log.rs,   *)
(* which lib.rs does not use, one call per behaviour.                      *)
(* AwaitSpec is the task suspended on StateFuture with the events that set *)
(* and clear State.ready, under weak fairness of the timers.  AnnounceSpec *)
(* is the session restricted to the events that reach State.topic_names.   *)
(***************************************************************************)
EXTENDS Integers, Sequences, FiniteSets, TLC

\* ---------------------------------------------------------------- bounds
MaxListeners == 1      \* listeners pushed through add_event_listener
MaxBatch     == 1      \* text frames in one inbound JSON batch

\* ------------------------------------------------------------ input sets
Names     == {"/a", "/b"}                \* topic names the server announces
SubNames  == {"/a"}                      \* topic names the page subscribes to
TopicIds  == {-1, 1}                     \* ids the server may announce
TypeNames == {"double"}                  \* announced type strings
Fns       == {"f1", "f2"}                \* js_sys::Function identities (subscribers)
Listeners == {"g1"}                      \* js_sys::Function identities (listeners)
NoFn      == "none"
Uids      == {0, 1}                      \* values newuid() may draw

ReconnectDelay == 3000                   \* ms, lib.rs:314
TimesyncPeriod == 3000                   \* ms, lib.rs:333

\* A microsecond count (an integral f64, a u32 or an i64 of the program) is
\* the pair W(hi, lo) = hi * 2^16 + lo, 0 <= lo < 2^16, so that its width is
\* the program's and not the checker's.  An i32 is a plain integer.
Base == 65536
W(hi, lo) == [hi |-> hi, lo |-> lo]
WOf(i) == W(i \div Base, i % Base)
WAdd(a, b) == W(a.hi + b.hi + (a.lo + b.lo) \div Base, (a.lo + b.lo) % Base)
WNeg(a) == IF a.lo = 0 THEN W(0 - a.hi, 0) ELSE W(0 - a.hi - 1, Base - a.lo)
WSub(a, b) == WAdd(a, WNeg(b))
WLeq(a, b) == a.hi < b.hi \/ (a.hi = b.hi /\ a.lo <= b.lo)

\* rmpv::Value of an inbound binary frame: an integer, an integer outside
\* the range a JavaScript number holds exactly, or a string.
IntVal(n) == [t |-> "int", n |-> n]
BigVal    == [t |-> "bigint", n |-> WOf(0)]
StrVal    == [t |-> "str", n |-> WOf(0)]
Values    == {IntVal(WOf(1000)), BigVal, StrVal}

ServerTimes == {WOf(5000)}               \* data.1 of a timesync reply
LocalNow    == {WOf(1100)}               \* perf.now() * 1000.0

VARIABLES
  ws,                  \* State.ws: "None" or "Some" (the latest WebSocket)
  sockState,           \* readyState of that socket
  offs,                \* State.offs
  ready,               \* State.ready
  announce_callbacks,  \* State.announce_callbacks
  unannounce_callbacks,
  properties_callbacks,
  close_callbacks,
  ready_callbacks,
  sub_callbacks,       \* State.sub_callbacks: name -> function
  topic_names,         \* State.topic_names: BiMap<String, i64> as a set of pairs
  periodic,            \* State.periodic: handle of the last setInterval
  intervals,           \* handles of the active setInterval timers
  reconnects,          \* pending setTimeout(start, 3000) timers
  synced,              \* history: a sync reply has arrived on the socket in ws
  ev,                  \* the invocation that ran last
  fired,               \* callbacks invoked by the last invocation, in order
  sent,                \* messages handed to WebSocket.send by the last invocation
  waiter,              \* the task of _nt4_start at StateFuture.await: the last Poll
  op,                  \* the codec or log-reader function applied last, with its input
  out                  \* what that function returned

vars == <<ws, sockState, offs, ready, announce_callbacks, unannounce_callbacks,
          properties_callbacks, close_callbacks, ready_callbacks, sub_callbacks,
          topic_names, periodic, intervals, reconnects, synced, ev, fired, sent,
          waiter, op, out>>

\* the session and its environment; binary.rs, types.rs and log.rs are pure
\* functions that never touch it
session == <<ws, sockState, offs, ready, announce_callbacks, unannounce_callbacks,
             properties_callbacks, close_callbacks, ready_callbacks, sub_callbacks,
             topic_names, periodic, intervals, reconnects, synced, ev, fired, sent,
             waiter>>

sessionVars == <<offs, ready, announce_callbacks, unannounce_callbacks,
                 properties_callbacks, close_callbacks, ready_callbacks,
                 sub_callbacks, topic_names, periodic>>

listenerVars == <<announce_callbacks, unannounce_callbacks, properties_callbacks,
                  close_callbacks, ready_callbacks>>

\* ------------------------------------------------------------- helpers
\* kind: the handler or API call; panic: it ended in a Rust panic; ret: the
\* uid it returned (-1: none); old: the function HashMap::insert displaced;
\* log: the level of the line it wrote through log::warn! or log::error!
Event(kind, panic) ==
  [kind |-> kind, panic |-> panic, ret |-> -1, old |-> NoFn, log |-> "none"]

Call(slot, fn, arg) == [slot |-> slot, fn |-> fn, arg |-> arg]
NoArg == <<>>

\* for callback in &callbacks { callback.call(...) }
CallAll(slot, callbacks, arg) ==
  [i \in 1..Len(callbacks) |-> Call(slot, callbacks[i], arg)]

BiInsert_M(m, name, id) == {p \in m : p[1] # name} \cup {<<name, id>>}

\* bimap::BiMap::insert: drops every pair that holds the name or the id
BiInsert(m, name, id) ==
  {p \in m : p[1] # name /\ p[2] # id} \cup {<<name, id>>}

GetByRight_M(m, id) == {p[1] : p \in m}

\* bimap::BiMap::get_by_right
GetByRight(m, id) == {p[1] : p \in {q \in m : q[2] = id}}

\* WebSocket.send: throws InvalidStateError while CONNECTING, queues the
\* data while OPEN, discards it silently once CLOSING or CLOSED
SendFails(st) == st = "connecting"

\* self.ws.as_ref().unwrap().send_*(..) followed by the caller's unwrap/expect
SendPanics == ws = "None" \/ SendFails(sockState)

Init ==
  /\ ws = "None"
  /\ sockState = "none"
  /\ offs = 0
  /\ ready = FALSE
  /\ announce_callbacks = <<>>
  /\ unannounce_callbacks = <<>>
  /\ properties_callbacks = <<>>
  /\ close_callbacks = <<>>
  /\ ready_callbacks = <<>>
  /\ sub_callbacks = [n \in Names |-> NoFn]
  /\ topic_names = {}
  /\ periodic = -1
  /\ intervals = {}
  /\ reconnects = 0
  /\ synced = FALSE
  /\ ev = Event("new", FALSE)
  /\ fired = <<>>
  /\ sent = <<>>
  /\ waiter = "none"
  /\ op = [fn |-> "none"]
  /\ out = [ok |-> TRUE]

\* State::start: a new WebSocket replaces self.ws; no other field of State
\* is touched.  The socket it replaces, if any, is closed: start runs from
\* the backoff timer, seconds after that socket's last event.
start ==
  /\ ws' = "Some"
  /\ sockState' = "connecting"
  /\ synced' = FALSE

\* StateFuture::poll: Poll::Ready(true) when State.ready is set; otherwise
\* setTimeout(wake, 200) and Poll::Pending
StateFuture(r) == IF r THEN "Ready(true)" ELSE "Pending"

\* _nt4_start: pushes the page's ready and close callbacks, then start(),
\* then the first poll of StateFuture.await
Nt4Start ==
  /\ ws = "None"
  /\ waiter' = StateFuture(ready)
  /\ ready_callbacks' = Append(ready_callbacks, "dom_ready")
  /\ close_callbacks' = Append(close_callbacks, "dom_close")
  /\ start
  /\ ev' = Event("nt4_start", FALSE)
  /\ fired' = <<>>
  /\ sent' = <<>>
  /\ UNCHANGED <<op, out, offs, ready, announce_callbacks, unannounce_callbacks,
                 properties_callbacks, sub_callbacks, topic_names, periodic,
                 intervals, reconnects>>

\* the 200 ms timeout of a pending StateFuture: the waker runs and the task
\* polls again.  It runs between the socket's and the timers' events and
\* writes no field of State.
Poll ==
  /\ waiter = "Pending"
  /\ waiter' = StateFuture(ready)
  /\ UNCHANGED <<ws, sockState, sessionVars, intervals, reconnects, synced, ev, fired,
                 sent, op, out>>

\* Every invocation but the close event that follows an error event runs in
\* a task of its own, so it finds the socket settled.
Settled == sockState # "failed"

\* ----------------------------------------------------------- clock sync
Probe_M(now) == [ch |-> "binary", topic |-> -1, ts |-> 0, ty |-> 1, val |-> IntVal(WOf(0))]

\* BinaryFrame(-1, 0, 1, now) of timesync()
Probe(now) == [ch |-> "binary", topic |-> -1, ts |-> 0, ty |-> 1, val |-> IntVal(now)]

\* rmpv::Value::as_f64: Some for a number, None otherwise
IsNumber(v) == v.t \in {"int", "bigint"}

\* f64::round of d / 2.0: half away from zero
RoundHalf(d) ==
  LET half(x) == W(x.hi \div 2, (x.hi % 2) * (Base \div 2) + x.lo \div 2)
  IN IF d.hi >= 0 THEN half(WAdd(d, WOf(1))) ELSE WNeg(half(WAdd(WNeg(d), WOf(1))))

\* f64 as u32: saturating
F64ToU32(x) ==
  IF x.hi < 0 THEN WOf(0) ELSE IF x.hi >= Base THEN W(Base - 1, Base - 1) ELSE x

I32Max == 2147483647
I32Min == -2147483647 - 1

\* f64 as i32: saturating
F64ToI32(x) ==
  IF x.hi >= Base \div 2 THEN I32Max
  ELSE IF x.hi < 0 - Base \div 2 THEN I32Min
  ELSE x.hi * Base + x.lo

\* u32 as i32 and i32 as u32: the same 32 bits
U32ToI32(u) == (IF u.hi >= Base \div 2 THEN u.hi - Base ELSE u.hi) * Base + u.lo
I32ToU32(i) == W(WOf(i).hi % Base, WOf(i).lo)

\* i32 arithmetic: the exact result, whether it fits, and the 32 bits that
\* are left of it when overflow checks are compiled out
Fits(w) == 0 - Base \div 2 <= w.hi /\ w.hi < Base \div 2
Wrap(w) == U32ToI32(W(w.hi % Base, w.lo))

\* ((now - local_time) / 2.0).round() as u32
Rtt2(now, v) == IF v.t = "int" THEN F64ToU32(RoundHalf(WSub(now, v.n))) ELSE WOf(0)

\* local_time.round() as i32
LocalI32(v) == IF v.t = "int" THEN F64ToI32(v.n) ELSE I32Max

\* server_time as i32 - rtt_2 as i32 - local_time.round() as i32, left to
\* right: a step that overflows panics where overflow checks are compiled in
\* (no value is assigned) and wraps where they are not; the build decides
NewOffs(server_time, now, v) ==
  LET d1 == WSub(WOf(U32ToI32(server_time)), WOf(U32ToI32(Rtt2(now, v))))
      d2 == WSub(WOf(Wrap(d1)), WOf(LocalI32(v)))
  IN IF Fits(d1) /\ Fits(d2)
     THEN {[panic |-> FALSE, offs |-> Wrap(d2)]}
     ELSE {[panic |-> TRUE, offs |-> 0], [panic |-> FALSE, offs |-> Wrap(d2)]}

\* State::now: (now.round() as i32 + self.offs) as u32, with the same two
\* outcomes when the sum overflows
StateNow(now, o) ==
  LET sum == WAdd(WOf(F64ToI32(now)), WOf(o))
  IN IF Fits(sum)
     THEN {[panic |-> FALSE, ts |-> I32ToU32(Wrap(sum))]}
     ELSE {[panic |-> TRUE, ts |-> WOf(0)], [panic |-> FALSE, ts |-> I32ToU32(Wrap(sum))]}

\* ------------------------------------------------------- socket events
\* window.setInterval returns a handle no live timer has; handles are only
\* ever compared, so the least unused number stands for it
NewHandle == CHOOSE h \in 1..(Cardinality(intervals) + 2) : h \notin intervals \cup {periodic}

\* onopen_callback: setInterval(timesync, 3000), remember the handle, timesync()
SocketOpen(now) ==
  /\ sockState = "connecting"
  /\ sockState' = "open"
  /\ periodic' = NewHandle
  /\ intervals' = intervals \cup {NewHandle}
  /\ sent' = <<Probe(now)>>
  /\ fired' = <<>>
  /\ ev' = Event("open", FALSE)
  /\ UNCHANGED <<op, out, waiter, ws, offs, ready, listenerVars, sub_callbacks, topic_names,
                 reconnects, synced>>

\* the interval timer set by onopen_callback fires: timesync()
TimesyncTick(h, now) ==
  /\ Settled
  /\ h \in intervals
  /\ sent' = IF SendPanics THEN <<>> ELSE <<Probe(now)>>
  /\ fired' = <<>>
  /\ ev' = Event("timesync", SendPanics)
  /\ UNCHANGED <<op, out, waiter, ws, sockState, sessionVars, intervals, reconnects, synced>>

\* inbound binary frames that rmp_serde decodes as BinaryFrame<rmpv::Value>
Frames == [topic : {-1, 1, 2}, ts : ServerTimes, val : Values]

\* serde_wasm_bindgen::to_value(&data.3): an integer that a JavaScript
\* number cannot hold is an Err, anything else becomes a JsValue
ToValueOk(v) == v.t # "bigint"
ToValue(v) == [js |-> v.t, n |-> v.n]

\* the stored callback the data branch reaches for topic id t, if any
Subscriber(t) ==
  {sub_callbacks[n] : n \in {m \in GetByRight(topic_names, t) : sub_callbacks[m] # NoFn}}

\* data branch of on_message_callback: which callbacks run
DataCalls(f) ==
  IF ToValueOk(f.val) /\ Subscriber(f.topic) # {}
  THEN <<Call("sub", CHOOSE g \in Subscriber(f.topic) : TRUE, ToValue(f.val))>>
  ELSE <<>>

\* on_message_callback, ArrayBuffer branch
OnBinary(f, now) ==
  /\ sockState = "open"
  /\ IF f.topic = -1
     THEN IF IsNumber(f.val)
          THEN \E o \in NewOffs(f.ts, now, f.val) :
                 IF o.panic
                 THEN \* the subtraction panics before STATE is touched
                      /\ fired' = <<>>
                      /\ ev' = Event("binary", TRUE)
                      /\ UNCHANGED <<offs, ready, synced>>
                 ELSE /\ offs' = o.offs
                      /\ ready' = TRUE
                      /\ fired' = CallAll("ready", ready_callbacks, NoArg)
                      /\ synced' = TRUE
                      \* st.borrow().now() for the trace line
                      /\ \E n \in StateNow(now, o.offs) : ev' = Event("binary", n.panic)
          ELSE \* data.3.as_f64().unwrap() panics before STATE is touched
               /\ fired' = <<>>
               /\ ev' = Event("binary", TRUE)
               /\ UNCHANGED <<offs, ready, synced>>
     ELSE /\ fired' = DataCalls(f)
          /\ ev' = Event("binary", FALSE)
          /\ UNCHANGED <<offs, ready, synced>>
  /\ sent' = <<>>
  /\ UNCHANGED <<op, out, waiter, ws, sockState, listenerVars, sub_callbacks, topic_names,
                 periodic, intervals, reconnects>>

\* what on_message_callback writes for a message it cannot use: nothing for
\* an ArrayBuffer that is no BinaryFrame, log::error! for a string that is no
\* Vec<TextFrame>, log::warn! for a message that is neither
LogOf(kind) ==
  CASE kind = "binary_undecodable" -> "none"
    [] kind = "text_undecodable" -> "error"
    [] kind = "unrecognized" -> "warn"

\* an ArrayBuffer that is no BinaryFrame, a string that is no Vec<TextFrame>
\* (malformed JSON, an unknown method), or a message that is neither
OnUndecodable(kind) ==
  /\ sockState = "open"
  /\ ev' = [Event(kind, FALSE) EXCEPT !.log = LogOf(kind)]
  /\ fired' = <<>>
  /\ sent' = <<>>
  /\ UNCHANGED <<op, out, waiter, ws, sockState, sessionVars, intervals, reconnects, synced>>

\* inbound TextFrame values; the outbound methods parse too and are skipped
TextFrame(method, name, id, ty) == [method |-> method, name |-> name, id |-> id, ty |-> ty]
TextFrames ==
  {TextFrame("announce", n, i, t) : n \in Names, i \in TopicIds, t \in TypeNames}
  \cup {TextFrame("unannounce", n, 1, "") : n \in Names}
  \cup {TextFrame("properties", n, 0, "") : n \in SubNames}
Batches == UNION {[1..k -> TextFrames] : k \in 0..MaxBatch}

\* match frame { Announce => insert, _ => {} }
TextMap(m, frame) ==
  IF frame.method = "announce" THEN BiInsert(m, frame.name, frame.id) ELSE m

\* match frame { Announce => call every announce callback, _ => {} }
TextCalls(frame) ==
  IF frame.method = "announce"
  THEN CallAll("announce", announce_callbacks, <<frame.name, frame.ty>>)
  ELSE <<>>

RECURSIVE BatchMap(_, _)
BatchMap(m, batch) ==
  IF batch = <<>> THEN m ELSE BatchMap(TextMap(m, Head(batch)), Tail(batch))

RECURSIVE BatchCalls(_)
BatchCalls(batch) ==
  IF batch = <<>> THEN <<>> ELSE TextCalls(Head(batch)) \o BatchCalls(Tail(batch))

\* on_message_callback, JsString branch with a batch that parses
OnText(batch) ==
  /\ sockState = "open"
  /\ topic_names' = BatchMap(topic_names, batch)
  /\ fired' = BatchCalls(batch)
  /\ sent' = <<>>
  /\ ev' = Event("text", FALSE)
  /\ UNCHANGED <<op, out, waiter, ws, sockState, offs, ready, listenerVars, sub_callbacks,
                 periodic, intervals, reconnects, synced>>

OnErrorProceeds_M(type, rdy) == type \in {"error", "close"}

\* onerror_callback: does the handler get past the match on e.type_()?
OnErrorProceeds(type, rdy) == type = "error" \/ (type = "close" /\ rdy)

ReadyOnDisconnect_M(rdy) == rdy

\* st.borrow_mut().ready = false
ReadyOnDisconnect(rdy) == FALSE

OnErrorCallback_M(type) ==
  LET rdy == ready
  IN /\ IF OnErrorProceeds(type, rdy)
        THEN /\ ready' = ReadyOnDisconnect(rdy)
             /\ fired' = CallAll("close", close_callbacks, NoArg)
             /\ intervals' = intervals \ {periodic}
             /\ reconnects' = reconnects + 1
             /\ topic_names' = {}
             /\ sub_callbacks' = [n \in Names |-> NoFn]
        ELSE /\ fired' = <<>>
             /\ UNCHANGED <<ready, intervals, reconnects, topic_names, sub_callbacks>>
     /\ sent' = <<>>
     /\ ev' = Event(type, FALSE)
     /\ UNCHANGED <<op, out, waiter, ws, offs, listenerVars, periodic, synced>>

\* onerror_callback, registered for both the error and the close event
OnErrorCallback(type) ==
  LET rdy == ready
  IN /\ IF OnErrorProceeds(type, rdy)
        THEN /\ ready' = ReadyOnDisconnect(rdy)
             /\ fired' = CallAll("close", close_callbacks, NoArg)
             /\ intervals' = intervals \ {periodic}
             /\ reconnects' = reconnects + 1
        ELSE /\ fired' = <<>>
             /\ UNCHANGED <<ready, intervals, reconnects>>
     /\ sent' = <<>>
     /\ ev' = Event(type, FALSE)
     /\ UNCHANGED <<op, out, waiter, ws, offs, listenerVars, sub_callbacks, topic_names,
                    periodic, synced>>

\* the connection fails: the browser fires error, then close
SocketError ==
  /\ sockState \in {"connecting", "open"}
  /\ sockState' = "failed"
  /\ OnErrorCallback("error")

\* the close event: after an error event, or a clean close of an open socket
SocketClose ==
  /\ sockState \in {"open", "failed"}
  /\ sockState' = "closed"
  /\ OnErrorCallback("close")

\* the setTimeout(.., 3000) closure of onerror_callback: State::start again
ReconnectTimer ==
  /\ Settled
  /\ reconnects > 0
  /\ reconnects' = reconnects - 1
  /\ start
  /\ ev' = Event("reconnect", FALSE)
  /\ fired' = <<>>
  /\ sent' = <<>>
  /\ UNCHANGED <<op, out, waiter, sessionVars, intervals>>

\* ------------------------------------------------------------------ API
EventNames == {"announce", "unannounce", "properties", "close", "ready"}

Registered ==
  Len(announce_callbacks) + Len(unannounce_callbacks)
    + Len(properties_callbacks) + Len(close_callbacks)

\* add_event_listener(name, f)
AddEventListener(name, f) ==
  /\ Settled
  /\ Registered < MaxListeners + (IF ws = "None" THEN 0 ELSE 1)
  /\ announce_callbacks' =
       IF name = "announce" THEN Append(announce_callbacks, f) ELSE announce_callbacks
  /\ unannounce_callbacks' =
       IF name = "unannounce" THEN Append(unannounce_callbacks, f) ELSE unannounce_callbacks
  /\ properties_callbacks' =
       IF name = "properties" THEN Append(properties_callbacks, f) ELSE properties_callbacks
  /\ close_callbacks' =
       IF name = "close" THEN Append(close_callbacks, f) ELSE close_callbacks
  \* x => log::warn!("Unrecognized event {:?}", x)
  /\ ev' = [Event("add_event_listener", FALSE) EXCEPT
              !.log = IF name \in {"announce", "unannounce", "properties", "close"}
                      THEN "none" ELSE "warn"]
  /\ fired' = <<>>
  /\ sent' = <<>>
  /\ UNCHANGED <<op, out, waiter, ws, sockState, offs, ready, ready_callbacks, sub_callbacks,
                 topic_names, periodic, intervals, reconnects, synced>>

\* A TextFrame: the variant, lowercased, and its fields.  A JSON value is
\* its kind k (array, object) and its content v.
TextMsg(method, params) == [method |-> method, params |-> params]

send_json_M(v) ==
  [ch |-> "text", json |-> [k |-> "object", v |-> [method |-> v.method, params |-> v.params]]]

\* State::send_json: serde_json::to_string(&vec![v]), the text handed to
\* send_with_str.  The derived Serialize of TextFrame (tag = "method",
\* content = "params") writes each frame as {"method": .., "params": {..}}.
send_json(v) ==
  [ch |-> "text",
   json |-> [k |-> "array",
             v |-> <<[k |-> "object", v |-> [method |-> v.method, params |-> v.params]]>>]]

\* TextFrame::Subscribe of subscribe(): all = true, topicsonly = prefix =
\* false; periodic is None (an element without a period attribute) and is
\* not written
SubscribeMsg(name, uid) ==
  TextMsg("subscribe",
          [topics |-> <<name>>, subuid |-> uid,
           options |-> [all |-> TRUE, topicsonly |-> FALSE, prefix |-> FALSE]])

SubInsert_M(m, name, f) == IF m[name] = NoFn THEN [m EXCEPT ![name] = f] ELSE m

\* HashMap::insert(name, f)
SubInsert(m, name, f) == [m EXCEPT ![name] = f]

\* subscribe(name, f, periodic) -> uid
Subscribe(name, f, uid) ==
  /\ Settled
  /\ IF SendPanics
     THEN \* send_json(..).unwrap() panics: nothing sent, nothing stored
          /\ sent' = <<>>
          /\ ev' = Event("subscribe", TRUE)
          /\ UNCHANGED sub_callbacks
     ELSE /\ sent' = <<send_json(SubscribeMsg(name, uid))>>
          /\ sub_callbacks' = SubInsert(sub_callbacks, name, f)
          /\ ev' = [Event("subscribe", FALSE) EXCEPT !.ret = uid, !.old = sub_callbacks[name]]
  /\ fired' = <<>>
  /\ UNCHANGED <<op, out, waiter, ws, sockState, offs, ready, listenerVars, topic_names,
                 periodic, intervals, reconnects, synced>>

SendOnly_M(kind, v, uid) ==
  /\ Settled
  /\ IF SendPanics
     THEN sent' = <<>> /\ ev' = Event(kind, TRUE)
     ELSE /\ sent' = IF ready THEN <<send_json(v)>> ELSE <<>>
          /\ ev' = [Event(kind, FALSE) EXCEPT !.ret = uid]
  /\ fired' = <<>>
  /\ UNCHANGED <<op, out, waiter, ws, sockState, sessionVars, intervals, reconnects, synced>>

\* a call that sends one TextFrame and touches nothing else: send_json(v)
\* .unwrap(), then the uid (if any) is returned
SendOnly(kind, v, uid) ==
  /\ Settled
  /\ IF SendPanics
     THEN sent' = <<>> /\ ev' = Event(kind, TRUE)
     ELSE sent' = <<send_json(v)>> /\ ev' = [Event(kind, FALSE) EXCEPT !.ret = uid]
  /\ fired' = <<>>
  /\ UNCHANGED <<op, out, waiter, ws, sockState, sessionVars, intervals, reconnects, synced>>

Unsubscribe_M(uid) ==
  /\ Settled
  /\ IF SendPanics
     THEN sent' = <<>> /\ ev' = Event("unsubscribe", TRUE) /\ UNCHANGED sub_callbacks
     ELSE /\ sent' = <<send_json(TextMsg("unsubscribe", [subuid |-> uid]))>>
          /\ ev' = Event("unsubscribe", FALSE)
          /\ sub_callbacks' = [n \in Names |-> NoFn]
  /\ fired' = <<>>
  /\ UNCHANGED <<op, out, waiter, ws, sockState, offs, ready, listenerVars, topic_names,
                 periodic, intervals, reconnects, synced>>

\* unsubscribe(uid)
Unsubscribe(uid) == SendOnly("unsubscribe", TextMsg("unsubscribe", [subuid |-> uid]), -1)

\* sub_topic_list(prefix) -> uid
SubTopicList(prefix, uid) ==
  SendOnly("sub_topic_list",
           TextMsg("subscribe",
                   [topics |-> <<prefix>>, subuid |-> uid,
                    options |-> [all |-> TRUE, topicsonly |-> TRUE, prefix |-> TRUE]]),
           uid)

\* publish(name, ty) -> uid
Publish(name, ty, uid) ==
  SendOnly("publish",
           TextMsg("publish",
                   [name |-> name, pubuid |-> uid, type |-> ty,
                    properties |-> [persistent |-> TRUE, retained |-> TRUE]]),
           uid)

\* unpublish(uid)
Unpublish(uid) == SendOnly("unpublish", TextMsg("unpublish", [pubuid |-> uid]), -1)

\* send_binary_fill: the type id of a type name, -1 for the Err of the
\* match's last arm
FillTypeId(ty) ==
  CASE ty = "boolean" -> 0
    [] ty = "double" -> 1
    [] ty = "int" -> 2
    [] ty = "float" -> 3
    [] ty \in {"string", "json"} -> 4
    [] ty \in {"raw", "rpc", "msgpack", "protobuf"} -> 5
    [] ty = "boolean[]" -> 16
    [] ty = "double[]" -> 17
    [] ty = "int[]" -> 18
    [] ty = "float[]" -> 19
    [] ty = "string[]" -> 20
    [] OTHER -> -1

\* BinaryFrame(id, st.borrow().now(), ty, v)
DataFrame(id, ts, ty, v) == [ch |-> "binary", topic |-> id, ts |-> ts, ty |-> ty, val |-> v]

PubIds == {0}                            \* publication uids the page sends on
SendValues == {IntVal(WOf(1000))}        \* values the page sends

\* send_data(pubid, ty, obj): send_binary_fill(pubid, ty, v).unwrap()
SendData(pubid, ty, v, now) ==
  /\ Settled
  /\ \E n \in StateNow(now, offs) :
       IF FillTypeId(ty) = -1 \/ n.panic \/ SendPanics
       THEN /\ sent' = <<>>
            /\ ev' = Event("send_data", TRUE)
       ELSE /\ sent' = <<DataFrame(pubid, n.ts, FillTypeId(ty), v)>>
            /\ ev' = Event("send_data", FALSE)
  /\ fired' = <<>>
  /\ UNCHANGED <<op, out, waiter, ws, sockState, sessionVars, intervals, reconnects, synced>>

Next ==
  \/ Nt4Start
  \/ \E now \in LocalNow : SocketOpen(now)
  \/ \E h \in intervals, now \in LocalNow : TimesyncTick(h, now)
  \/ \E f \in Frames, now \in LocalNow : OnBinary(f, now)
  \/ OnUndecodable("binary_undecodable")
  \/ OnUndecodable("text_undecodable")
  \/ OnUndecodable("unrecognized")
  \/ \E batch \in Batches : OnText(batch)
  \/ SocketError
  \/ SocketClose
  \/ ReconnectTimer
  \/ \E name \in EventNames, f \in Listeners : AddEventListener(name, f)
  \/ \E name \in SubNames, f \in Fns, uid \in Uids : Subscribe(name, f, uid)
  \/ \E pubid \in PubIds, ty \in TypeNames, v \in SendValues, now \in LocalNow :
        SendData(pubid, ty, v, now)
  \/ \E uid \in PubIds : Unsubscribe(uid)
  \/ \E prefix \in SubNames, uid \in PubIds : SubTopicList(prefix, uid)
  \/ \E name \in SubNames, ty \in TypeNames, uid \in PubIds : Publish(name, ty, uid)
  \/ \E uid \in PubIds : Unpublish(uid)

Spec == Init /\ [][Next]_vars

\* --------------------------------------------------- awaiting readiness
\* The task suspended in _nt4_start, with the events that set and clear
\* State.ready.  The browser runs every timer that is due: the 200 ms
\* timeout of the waiter, the timesync interval and the reconnect backoff.
\* When the server answers and when the socket fails is up to the network.
AwaitNext ==
  \/ Nt4Start
  \/ \E now \in LocalNow : SocketOpen(now)
  \/ \E h \in intervals, now \in LocalNow : TimesyncTick(h, now)
  \/ \E f \in Frames, now \in LocalNow : OnBinary(f, now)
  \/ SocketError
  \/ SocketClose
  \/ ReconnectTimer
  \/ Poll

AwaitSpec ==
  /\ Init
  /\ [][AwaitNext]_vars
  /\ WF_vars(Poll)
  /\ WF_vars(\E h \in intervals, now \in LocalNow : TimesyncTick(h, now))
  /\ WF_vars(ReconnectTimer)

\* ------------------------------------------------------ the topic map
\* The text branch of on_message_callback is the only writer of
\* State.topic_names: the session with its text frames, its listeners and
\* its disconnects, without the binary frames and the sending calls.
AnnounceNext ==
  \/ Nt4Start
  \/ \E now \in LocalNow : SocketOpen(now)
  \/ \E batch \in Batches : OnText(batch)
  \/ SocketError
  \/ SocketClose
  \/ ReconnectTimer
  \/ \E name \in EventNames, f \in Listeners : AddEventListener(name, f)

AnnounceSpec == Init /\ [][AnnounceNext]_vars

\* ------------------------------------------------- the clock at full width
\* The same two handlers on an open socket, with times drawn from both sides
\* of 2^31 microseconds (35 min 47 s after the page loaded or the server
\* started).
\* 5000, 2^31, 3 000 000 050, 2^32 - 1
ClockServerTimes == {WOf(5000), W(Base \div 2, 0), W(45776, 24114), W(Base - 1, Base - 1)}
ClockSendTimes == {WOf(1000), W(45776, 24064)}                       \* 1000, 3 000 000 000
ClockNow == {WOf(1100), WOf(I32Max), W(45776, 24164)}                \* 1100, 2^31 - 1, 3 000 000 100
ClockFrames ==
  [topic : {-1}, ts : ClockServerTimes, val : {IntVal(n) : n \in ClockSendTimes}]
ClockTypes == {"double", "duble"}

\* the session after _nt4_start and the socket's open event
ClockInit ==
  /\ ws = "Some"
  /\ sockState = "open"
  /\ offs = 0
  /\ ready = FALSE
  /\ announce_callbacks = <<>>
  /\ unannounce_callbacks = <<>>
  /\ properties_callbacks = <<>>
  /\ close_callbacks = <<"dom_close">>
  /\ ready_callbacks = <<"dom_ready">>
  /\ sub_callbacks = [n \in Names |-> NoFn]
  /\ topic_names = {}
  /\ periodic = 1
  /\ intervals = {1}
  /\ reconnects = 0
  /\ synced = FALSE
  /\ ev = Event("open", FALSE)
  /\ fired = <<>>
  /\ sent = <<Probe(WOf(1000))>>
  /\ waiter = "Pending"
  /\ op = [fn |-> "none"]
  /\ out = [ok |-> TRUE]

ClockNext ==
  \/ \E f \in ClockFrames, now \in ClockNow : OnBinary(f, now)
  \/ \E pubid \in PubIds, ty \in ClockTypes, v \in SendValues, now \in ClockNow :
        SendData(pubid, ty, v, now)

ClockSpec == ClockInit /\ [][ClockNext]_vars

\* ------------------------------------------------------------- types.rs
\* Result<T, E>
Ok(x) == [ok |-> TRUE, val |-> x]
Err(e) == [ok |-> FALSE, err |-> e]

\* one line of the nt4_type! invocation: Name(str, id, ty, [(Other, other_name), ..])
Nt4Type(name, str, id, ty, others) ==
  [name |-> name, str |-> str, id |-> id, ty |-> ty, others |-> others]

\* the nt4_type! invocation, in declaration order
nt4_type ==
  << Nt4Type("Boolean", "boolean", 0, "bool", {}),
     Nt4Type("Double", "double", 1, "f64", {}),
     Nt4Type("Int", "int", 2, "i64", {}),
     Nt4Type("Float", "float", 3, "f32", {}),
     Nt4Type("String", "string", 4, "String", {<<"Json", "json">>}),
     Nt4Type("Json", "json", 4, "String", {<<"String", "string">>}),
     Nt4Type("Raw", "raw", 5, "ByteBuf",
             {<<"Rpc", "rpc">>, <<"MsgPack", "msgpack">>, <<"Protobuf", "protobuf">>}),
     Nt4Type("Rpc", "rpc", 5, "ByteBuf",
             {<<"Raw", "raw">>, <<"MsgPack", "msgpack">>, <<"Protobuf", "protobuf">>}),
     Nt4Type("MsgPack", "msgpack", 5, "ByteBuf",
             {<<"Raw", "raw">>, <<"Rpc", "rpc">>, <<"Protobuf", "protobuf">>}),
     Nt4Type("Protobuf", "protobuf", 5, "ByteBuf",
             {<<"Raw", "raw">>, <<"Rpc", "rpc">>, <<"MsgPack", "msgpack">>}),
     Nt4Type("BooleanArray", "boolean[]", 16, "Vec<bool>", {}),
     Nt4Type("DoubleArray", "double[]", 17, "Vec<f64>", {}),
     Nt4Type("IntArray", "int[]", 18, "Vec<i64>", {}),
     Nt4Type("FloatArray", "float[]", 19, "Vec<f32>", {}),
     Nt4Type("StringArray", "string[]", 20, "Vec<String>", {}) >>

Variants == {nt4_type[i].name : i \in 1..Len(nt4_type)}
TypeOf(variant) == nt4_type[CHOOSE i \in 1..Len(nt4_type) : nt4_type[i].name = variant]

\* a value of enum Nt4Data: the variant and what it holds.  A bool is a
\* BOOLEAN, a number an integer (floats are kept to integral values), a
\* String its UTF-8 bytes, a ByteBuf its bytes, a Vec a sequence.
Data(variant, x) == [variant |-> variant, data |-> x]

\* Nt4Data::get_id, get_name
get_id(v) == TypeOf(v.variant).id
get_name(v) == TypeOf(v.variant).str

\* Nt4TypeId::from_id: the first arm of the match with that id
from_id(id) ==
  IF \E i \in 1..Len(nt4_type) : nt4_type[i].id = id
  THEN Ok(nt4_type[CHOOSE i \in 1..Len(nt4_type) :
                     /\ nt4_type[i].id = id
                     /\ \A j \in 1..(i - 1) : nt4_type[j].id # id].name)
  ELSE Err([msg |-> "Unrecognized type id: {}", id |-> id])

convert_M(v, name) ==
  LET t == TypeOf(v.variant)
  IN IF name = t.str \/ \E o \in t.others : o[2] = name
     THEN Ok(Data(t.name, v.data))
     ELSE Err([msg |-> "Cannot convert from {:?} to {:?}", from |-> t.str, to |-> name])

\* Nt4Data::convert
convert(v, name) ==
  LET t == TypeOf(v.variant)
  IN IF name = t.str
     THEN Ok(Data(t.name, v.data))
     ELSE IF \E o \in t.others : o[2] = name
     THEN Ok(Data((CHOOSE o \in t.others : o[2] = name)[1], v.data))
     ELSE Err([msg |-> "Cannot convert from {:?} to {:?}", from |-> t.str, to |-> name])

\* ------------------------------------------------------------ binary.rs
\* A MessagePack value as serde sees it: k is bool, int, f32, f64, str, bin
\* or array; v the boolean, the number, the bytes, or the elements.
Wire(k, v) == [k |-> k, v |-> v]

\* the derived Serialize of the Rust types the variants hold
SerScalar(ty, x) ==
  CASE ty = "bool" -> Wire("bool", x)
    [] ty = "f64" -> Wire("f64", x)
    [] ty = "i64" -> Wire("int", x)
    [] ty = "f32" -> Wire("f32", x)
    [] ty = "String" -> Wire("str", x)
    [] ty = "ByteBuf" -> Wire("bin", x)

IsVec(ty) == ty \in {"Vec<bool>", "Vec<f64>", "Vec<i64>", "Vec<f32>", "Vec<String>"}
ElemTy(ty) ==
  CASE ty = "Vec<bool>" -> "bool"
    [] ty = "Vec<f64>" -> "f64"
    [] ty = "Vec<i64>" -> "i64"
    [] ty = "Vec<f32>" -> "f32"
    [] ty = "Vec<String>" -> "String"

Ser(ty, x) ==
  IF IsVec(ty)
  THEN Wire("array", [i \in 1..Len(x) |-> SerScalar(ElemTy(ty), x[i])])
  ELSE SerScalar(ty, x)

\* #[serde(untagged)] Serialize of Nt4Data: the payload alone
SerData(v) == Ser(TypeOf(v.variant).ty, v.data)

\* str::from_utf8 on the bytes of the model (0x41 and 0xff): no byte of a
\* UTF-8 string is 0xff
Utf8(b) == \A i \in 1..Len(b) : b[i] < 128

\* does the Deserialize of a Rust type take the buffered value?  f64 and f32
\* take any number; i64 an integer; String a str, or a bin that is UTF-8;
\* ByteBuf a bin, a str, or an array of integers 0..255
Accepts(ty, w) ==
  CASE ty = "bool" -> w.k = "bool"
    [] ty \in {"f64", "f32"} -> w.k \in {"f64", "f32", "int"}
    [] ty = "i64" -> w.k = "int"
    [] ty = "String" -> w.k = "str" \/ (w.k = "bin" /\ Utf8(w.v))
    [] ty = "ByteBuf" ->
         \/ w.k \in {"bin", "str"}
         \/ /\ w.k = "array"
            /\ \A i \in 1..Len(w.v) : w.v[i].k = "int" /\ w.v[i].v \in 0..255
    [] OTHER ->
         /\ w.k = "array"
         /\ \A i \in 1..Len(w.v) :
               LET e == w.v[i]
               IN CASE ElemTy(ty) = "bool" -> e.k = "bool"
                    [] ElemTy(ty) \in {"f64", "f32"} -> e.k \in {"f64", "f32", "int"}
                    [] ElemTy(ty) = "i64" -> e.k = "int"
                    [] ElemTy(ty) = "String" -> e.k = "str" \/ (e.k = "bin" /\ Utf8(e.v))

\* what it then holds
Taken(ty, w) ==
  IF w.k = "array" THEN [i \in 1..Len(w.v) |-> w.v[i].v] ELSE w.v

\* #[serde(untagged)] Deserialize of Nt4Data: the first variant, in
\* declaration order, whose type takes the value
DeData(w) ==
  IF \E i \in 1..Len(nt4_type) : Accepts(nt4_type[i].ty, w)
  THEN LET first == CHOOSE i \in 1..Len(nt4_type) :
                      /\ Accepts(nt4_type[i].ty, w)
                      /\ \A j \in 1..(i - 1) : ~Accepts(nt4_type[j].ty, w)
       IN Ok(Data(nt4_type[first].name, Taken(nt4_type[first].ty, w)))
  ELSE Err([msg |-> "data did not match any variant of untagged enum Nt4Data"])

\* BinaryDataFrame
Frame(topic_id, timestamp, data) ==
  [topic_id |-> topic_id, timestamp |-> timestamp, data |-> data]

\* Serialize for BinaryDataFrame: the tuple (topic_id, timestamp, data.get_id(), data)
serialize(frame) ==
  [topic_id |-> frame.topic_id, timestamp |-> frame.timestamp,
   data_type |-> get_id(frame.data), data |-> SerData(frame.data)]

\* Deserialize for BinaryDataFrame: the tuple (i32, i64, u8, Nt4Data), then
\* the comparison of data.get_id() with the declared type
deserialize(wire) ==
  IF wire.data_type \notin 0..255
  THEN Err([msg |-> "invalid value: integer, expected u8"])
  ELSE LET data == DeData(wire.data)
       IN IF ~data.ok THEN data
          ELSE IF get_id(data.val) # wire.data_type
          THEN IF from_id(wire.data_type).ok
               THEN Err([msg |-> "data type does not match type id",
                         got |-> get_name(data.val),
                         expected |-> from_id(wire.data_type).val])
               ELSE Err([msg |-> from_id(wire.data_type).err.msg])
          ELSE Ok(Frame(wire.topic_id, wire.timestamp, data.val))

\* --------------------------------------------------------------- log.rs
\* a & b on bytes
RECURSIVE BitAnd(_, _)
BitAnd(a, b) ==
  IF a = 0 \/ b = 0 THEN 0
  ELSE (a % 2) * (b % 2) + 2 * BitAnd(a \div 2, b \div 2)

\* WpiLogRecordHeader::read_options on a stream: the control byte, then the
\* three masks, each + 1
read_options(stream) ==
  IF stream = <<>>
  THEN Err([msg |-> "unexpected end of file"])
  ELSE LET bitfield == stream[1]
       IN Ok([entry_id_len |-> BitAnd(bitfield, 3) + 1,
              payload_size_len |-> BitAnd(bitfield, 12) + 1,
              timestamp_len |-> BitAnd(bitfield, 112) + 1])

\* a thread that panics returns nothing
Panic(e) == [ok |-> FALSE, panic |-> TRUE, err |-> e]

\* Vec::reverse, <[u8]>::reverse
Reverse(s) == [i \in 1..Len(s) |-> s[Len(s) + 1 - i]]

\* An unsigned integer of n bytes is the sequence of its n base-256 digits,
\* the least significant first.  u32::read_options, u64::read_options,
\* u32::from_be_bytes: the bytes of a little-endian read are the digits as
\* they stand, those of a big-endian read the digits in reverse.
FromBytes(bytes, endian) == IF endian = "little" THEN bytes ELSE Reverse(bytes)

\* read_varlen_u32 (width 4) and read_varlen_u64 (width 8): read count
\* bytes, reverse them, copy them to the front of a zeroed array of width
\* bytes, reverse the array, read it with the caller's endianness
read_varlen(width, stream, endian, count) ==
  IF Len(stream) < count
  THEN Err([msg |-> "failed to fill whole buffer"])
  ELSE IF count > width
  THEN Panic([msg |-> "index out of bounds"])
  ELSE LET bytes == Reverse(SubSeq(stream, 1, count))
           actual_bytes == [i \in 1..width |-> IF i <= count THEN bytes[i] ELSE 0]
       IN Ok(FromBytes(Reverse(actual_bytes), endian))

\* u32::from_be_bytes, i64::from_be_bytes, f64::from_be_bytes, ..: the
\* number whose bytes, the most significant first, are these
from_be_bytes_M(bytes) == FromBytes(bytes, "little")

from_be_bytes(bytes) == FromBytes(bytes, "big")

\* a u32 as usize, where it is a count or a length: exact up to 65535; a
\* larger one counts as 65536, more than any stream of the model holds
AsUsize(d) == IF d[3] = 0 /\ d[4] = 0 THEN d[1] + 256 * d[2] ELSE Base

\* String::from_utf8_lossy on the bytes of the model (ASCII and 0xff): each
\* 0xff becomes U+FFFD, the bytes EF BF BD
RECURSIVE from_utf8_lossy(_)
from_utf8_lossy(b) ==
  IF b = <<>> THEN <<>>
  ELSE (IF Head(b) = 255 THEN <<239, 191, 189>> ELSE <<Head(b)>>)
         \o from_utf8_lossy(Tail(b))

\* itertools tuples() over data.iter(), mapped: the whole groups of w bytes
\* in order, each read by from_be_bytes; what is left over is dropped
Tuples(data, w) ==
  [k \in 1..(Len(data) \div w) |->
     from_be_bytes(SubSeq(data, w * (k - 1) + 1, w * k))]

\* the loop of the StringArray arm: n strings from offset off (offs, counted
\* from 0), each a big-endian u32 length and that many bytes.  An index or a
\* slice past the end of data panics.
RECURSIVE ReadStrs(_, _, _)
ReadStrs(data, off, n) ==
  IF n = 0 THEN Ok(<<>>)
  ELSE IF off + 4 > Len(data) THEN Panic([msg |-> "index out of bounds"])
  ELSE LET strlen == AsUsize(from_be_bytes(SubSeq(data, off + 1, off + 4)))
       IN IF off + 4 + strlen > Len(data)
          THEN Panic([msg |-> "range end index out of range for slice"])
          ELSE LET strn == from_utf8_lossy(SubSeq(data, off + 5, off + 4 + strlen))
                   rest == ReadStrs(data, off + 4 + strlen, n - 1)
               IN IF rest.ok THEN Ok(<<strn>> \o rest.val) ELSE rest

\* RawData::get_data(ty) of RawData { entry_id, data }.  A number it reads
\* is held as its base-256 digits, a String as its bytes.
get_data(entry_id, data, ty) ==
  LET scalar(w) ==
        IF Len(data) < w THEN Panic([msg |-> "index out of bounds"])
        ELSE Ok(<<entry_id, Data(ty, from_be_bytes(SubSeq(data, 1, w)))>>)
  IN CASE ty = "Boolean" ->
            IF data = <<>> THEN Panic([msg |-> "index out of bounds"])
            ELSE Ok(<<entry_id, Data("Boolean", data[1] # 0)>>)
       [] ty \in {"Double", "Int"} -> scalar(8)
       [] ty = "Float" -> scalar(4)
       [] ty \in {"String", "Json"} ->
            Ok(<<entry_id, Data("String", from_utf8_lossy(data))>>)
       [] ty \in {"Raw", "Rpc", "MsgPack", "Protobuf"} ->
            Ok(<<entry_id, Data("Raw", data)>>)
       [] ty = "BooleanArray" ->
            Ok(<<entry_id, Data("BooleanArray", [i \in 1..Len(data) |-> data[i] # 0])>>)
       [] ty \in {"DoubleArray", "IntArray"} ->
            Ok(<<entry_id, Data(ty, Tuples(data, 8))>>)
       [] ty = "FloatArray" ->
            Ok(<<entry_id, Data("FloatArray", Tuples(data, 4))>>)
       [] ty = "StringArray" ->
            IF Len(data) < 4 THEN Panic([msg |-> "index out of bounds"])
            ELSE LET strs == ReadStrs(data, 4, AsUsize(from_be_bytes(SubSeq(data, 1, 4))))
                 IN IF strs.ok THEN Ok(<<entry_id, Data("StringArray", strs.val)>>)
                    ELSE strs

\* the bytes of a wire type name
StrBytes(s) ==
  CASE s = "boolean" -> <<98, 111, 111, 108, 101, 97, 110>>
    [] s = "double" -> <<100, 111, 117, 98, 108, 101>>
    [] s = "int" -> <<105, 110, 116>>
    [] s = "float" -> <<102, 108, 111, 97, 116>>
    [] s = "string" -> <<115, 116, 114, 105, 110, 103>>
    [] s = "json" -> <<106, 115, 111, 110>>
    [] s = "raw" -> <<114, 97, 119>>
    [] s = "rpc" -> <<114, 112, 99>>
    [] s = "msgpack" -> <<109, 115, 103, 112, 97, 99, 107>>
    [] s = "protobuf" -> <<112, 114, 111, 116, 111, 98, 117, 102>>
    [] s = "boolean[]" -> <<98, 111, 111, 108, 101, 97, 110, 91, 93>>
    [] s = "double[]" -> <<100, 111, 117, 98, 108, 101, 91, 93>>
    [] s = "int[]" -> <<105, 110, 116, 91, 93>>
    [] s = "float[]" -> <<102, 108, 111, 97, 116, 91, 93>>
    [] s = "string[]" -> <<115, 116, 114, 105, 110, 103, 91, 93>>

\* Nt4TypeId::from_name, which log.rs calls and types.rs does not define:
\* the type of that name in the table of type names, an error for any other
from_name(b) ==
  IF \E i \in 1..Len(nt4_type) : StrBytes(nt4_type[i].str) = b
  THEN Ok(nt4_type[CHOOSE i \in 1..Len(nt4_type) : StrBytes(nt4_type[i].str) = b].name)
  ELSE Err([msg |-> "Unrecognized type: {:?}"])

\* a read of n bytes at position pos (counted from 1) gives the bytes and
\* the position after them, or fails at the end of the stream
ReadBytes(stream, pos, n) ==
  IF pos + n - 1 > Len(stream)
  THEN Err([msg |-> "failed to fill whole buffer"])
  ELSE Ok([val |-> SubSeq(stream, pos, pos + n - 1), pos |-> pos + n])

\* u32 field
ReadU32(stream, pos, endian) ==
  LET r == ReadBytes(stream, pos, 4)
  IN IF r.ok THEN Ok([val |-> FromBytes(r.val.val, endian), pos |-> r.val.pos]) ELSE r

\* #[br(temp)] len: u32, then #[br(count = len, map = from_utf8_lossy)]
ReadString(stream, pos, endian) ==
  LET len == ReadU32(stream, pos, endian)
      r == ReadBytes(stream, len.val.pos, AsUsize(len.val.val))
  IN IF ~len.ok THEN len
     ELSE IF r.ok THEN Ok([val |-> from_utf8_lossy(r.val.val), pos |-> r.val.pos]) ELSE r

\* the derived BinRead of ControlRecord: the variant whose magic byte the
\* stream starts with, its fields in order; an error when no variant reads
ControlRecord(stream, endian) ==
  LET NoMatch == Err([msg |-> "no variants matched"])
      entry_id == ReadU32(stream, 2, endian)
  IN IF stream = <<>> \/ ~entry_id.ok THEN NoMatch
     ELSE CASE stream[1] = 0 ->
                 LET entry_name == ReadString(stream, entry_id.val.pos, endian)
                     type_bytes == ReadString(stream, entry_name.val.pos, endian)
                     entry_type == from_name(type_bytes.val.val)
                     entry_meta == ReadString(stream, type_bytes.val.pos, endian)
                 IN IF entry_name.ok /\ type_bytes.ok /\ entry_type.ok /\ entry_meta.ok
                    THEN Ok([variant |-> "Start", entry_id |-> entry_id.val.val,
                             entry_name |-> entry_name.val.val,
                             entry_type |-> entry_type.val,
                             entry_meta |-> entry_meta.val.val])
                    ELSE NoMatch
            [] stream[1] = 1 ->
                 Ok([variant |-> "Finish", entry_id |-> entry_id.val.val])
            [] stream[1] = 2 ->
                 LET entry_meta == ReadString(stream, entry_id.val.pos, endian)
                 IN IF entry_meta.ok
                    THEN Ok([variant |-> "SetMetadata", entry_id |-> entry_id.val.val,
                             entry_meta |-> entry_meta.val.val])
                    ELSE NoMatch
            [] OTHER -> NoMatch

\* Payload::read_options with the arguments (entry_id, count)
Payload(stream, endian, entry_id, count) ==
  IF entry_id = 0
  THEN LET c == ControlRecord(stream, endian)
       IN IF c.ok THEN Ok([variant |-> "Control", record |-> c.val]) ELSE c
  ELSE LET data == ReadBytes(stream, 1, count)
       IN IF data.ok
          THEN Ok([variant |-> "Data", entry_id |-> entry_id, data |-> data.val.val])
          ELSE data

\* ------------------------------------------------ the library, call by call
MaxLen == 1                              \* elements of a Vec, bytes of a string

Seqs(S) == UNION {[1..k -> S] : k \in 0..MaxLen}
ByteStrings == Seqs({65, 255})
Strings == {b \in ByteStrings : Utf8(b)}
Ints == {-1, 5, 300}
Floats == {5}

\* the payloads a variant is tried with
Payloads(variant) ==
  LET ty == TypeOf(variant).ty
  IN CASE ty = "bool" -> BOOLEAN
       [] ty = "f64" -> Floats
       [] ty = "i64" -> Ints
       [] ty = "f32" -> Floats
       [] ty = "String" -> Strings
       [] ty = "ByteBuf" -> ByteStrings
       [] ty = "Vec<bool>" -> Seqs(BOOLEAN)
       [] ty = "Vec<f64>" -> Seqs(Floats)
       [] ty = "Vec<i64>" -> Seqs(Ints)
       [] ty = "Vec<f32>" -> Seqs(Floats)
       [] ty = "Vec<String>" -> Seqs(Strings)

ConvertNames == {nt4_type[i].str : i \in 1..Len(nt4_type)} \cup {"number"}
DeclaredIds == {nt4_type[i].id : i \in 1..Len(nt4_type)} \cup {7, 300}
FrameTopics == {1}
FrameTimes == {0, 5000}

\* The functions keep nothing between calls, so a behaviour is one call.
Fresh == op.fn = "none"

\* v.convert(name)
CallConvert(v, name) ==
  /\ Fresh
  /\ op' = [fn |-> "convert", v |-> v, name |-> name]
  /\ out' = convert(v, name)
  /\ UNCHANGED session

\* rmp_serde::from_slice::<BinaryDataFrame>(&rmp_serde::to_vec(&frame))
CallRoundTrip(frame) ==
  /\ Fresh
  /\ op' = [fn |-> "roundtrip", frame |-> frame]
  /\ out' = deserialize(serialize(frame))
  /\ UNCHANGED session

\* rmp_serde::from_slice::<BinaryDataFrame> of a frame that declares type id
\* declared and carries the encoding of v
CallDeserialize(topic_id, timestamp, declared, v) ==
  /\ Fresh
  /\ op' = [fn |-> "deserialize", declared |-> declared, v |-> v]
  /\ out' = deserialize([topic_id |-> topic_id, timestamp |-> timestamp,
                         data_type |-> declared, data |-> SerData(v)])
  /\ UNCHANGED session

\* WpiLogRecordHeader::read_options(reader, ..)
CallReadOptions(stream) ==
  /\ Fresh
  /\ op' = [fn |-> "read_options", stream |-> stream]
  /\ out' = read_options(stream)
  /\ UNCHANGED session

\* streams that hold the count bytes of a field, or one byte less
VarStreams(count) == [1..(count - 1) -> {0, 1}] \cup [1..count -> {0, 1}]

\* read_varlen_u32(reader, endian, (count,)), read_varlen_u64(..)
CallReadVarlen(width, stream, endian, count) ==
  /\ Fresh
  /\ op' = [fn |-> "read_varlen", width |-> width, stream |-> stream,
            endian |-> endian, count |-> count]
  /\ out' = read_varlen(width, stream, endian, count)
  /\ UNCHANGED session

LogBytes == {0, 1, 255}                   \* bytes of a Data payload

RECURSIVE Flatten(_)
Flatten(ss) == IF ss = <<>> THEN <<>> ELSE Head(ss) \o Flatten(Tail(ss))

\* a payload cut short by a byte
Short(S) == {SubSeq(q, 1, Len(q) - 1) : q \in {r \in S : r # <<>>}}

\* the payload of a string[]: a big-endian u32 count, then each string as
\* a big-endian u32 length and its bytes
BE32(n) == <<0, 0, n \div 256, n % 256>>
EncStrs(ss) == BE32(Len(ss)) \o Flatten([i \in 1..Len(ss) |-> BE32(Len(ss[i])) \o ss[i]])
StrArrays == {EncStrs(ss) : ss \in Seqs(ByteStrings)}
\* a string[] whose count or lengths run past the end of the payload
Overruns ==
  Short(StrArrays) \cup {BE32(1), BE32(1) \o BE32(2) \o <<65>>, <<255, 255, 255, 255>>}

\* the Data payloads a Start type is tried with: one scalar of w bytes, an
\* array of them, each also a byte short or with a byte too many
DataPayloads(ty) ==
  LET Scalars(w) ==
        {[i \in 1..w |-> IF i = 1 THEN a ELSE IF i = w THEN b ELSE 0] : a, b \in LogBytes}
      Arrays(w) == {Flatten(es) : es \in Seqs(Scalars(w))}
      Long(S) == {q \o <<1>> : q \in S}
  IN CASE ty = "Boolean" -> Scalars(1) \cup Short(Scalars(1)) \cup Long(Scalars(1))
       [] ty \in {"Double", "Int"} -> Scalars(8) \cup Short(Scalars(8))
       [] ty = "Float" -> Scalars(4) \cup Short(Scalars(4))
       [] ty \in {"String", "Json", "Raw", "Rpc", "MsgPack", "Protobuf"} -> ByteStrings
       [] ty = "BooleanArray" -> Seqs(LogBytes)
       [] ty \in {"DoubleArray", "IntArray"} -> Arrays(8) \cup Long(Arrays(8))
       [] ty = "FloatArray" -> Arrays(4) \cup Long(Arrays(4))
       [] ty = "StringArray" -> StrArrays \cup Overruns

\* Control payloads: a tag byte, an entry id as a u32, the length-prefixed
\* fields of the variant; each also a byte short
ControlStreams(endian) ==
  LET U32(n) == FromBytes(<<n % 256, n \div 256, 0, 0>>, endian)
      Field(b) == U32(Len(b)) \o b
      whole ==
        {<<tag>> \o U32(1) : tag \in 0..3}
        \cup {<<tag>> \o U32(1) \o Field(m) : tag \in {2, 3}, m \in ByteStrings}
        \cup {<<tag>> \o U32(1) \o Field(<<65>>) \o Field(t) \o Field(<<>>) :
                 tag \in {0, 3}, t \in {StrBytes("double"), StrBytes("string[]"), <<100, 117>>}}
  IN whole \cup Short(whole)

\* RawData { entry_id, data }.get_data(ty)
CallGetData(entry_id, data, ty) ==
  /\ Fresh
  /\ op' = [fn |-> "get_data", entry_id |-> entry_id, data |-> data, ty |-> ty]
  /\ out' = get_data(entry_id, data, ty)
  /\ UNCHANGED session

\* Payload::read_options(reader, endian, (entry_id, count))
CallPayload(stream, endian, entry_id, count) ==
  /\ Fresh
  /\ op' = [fn |-> "payload", stream |-> stream, endian |-> endian,
            entry_id |-> entry_id, count |-> count]
  /\ out' = Payload(stream, endian, entry_id, count)
  /\ UNCHANGED session

\* An Option is a sequence: <<>> is None, <<x>> is Some(x).  A JSON object
\* is the function from its keys to their values.
PartialPropertiesSer_M(p) ==
  [persistent |-> IF p.persistent # <<>> THEN p.persistent[1] ELSE "null",
   retained |-> IF p.retained # <<>> THEN p.retained[1] ELSE "null"]

\* impl serde::Serialize for PartialProperties: the structs RP, PnR, RnP, N
PartialPropertiesSer(p) ==
  IF p.persistent # <<>>
  THEN IF p.retained # <<>>
       THEN [persistent |-> p.persistent[1], retained |-> p.retained[1]]
       ELSE [persistent |-> p.persistent[1]]
  ELSE IF p.retained # <<>>
       THEN [retained |-> p.retained[1]]
       ELSE [k \in {} |-> TRUE]

\* #[derive(Deserialize)] of PartialProperties: each field is
\* #[serde(default)] Option<bool>, None when its key is absent
PartialPropertiesDe(obj) ==
  [persistent |-> IF "persistent" \in DOMAIN obj THEN <<obj.persistent>> ELSE <<>>,
   retained |-> IF "retained" \in DOMAIN obj THEN <<obj.retained>> ELSE <<>>]

\* serde_json::to_value(&p), then serde_json::from_value of the result
CallPartialProperties(p) ==
  /\ Fresh
  /\ op' = [fn |-> "partial_properties", p |-> p]
  /\ out' = [json |-> PartialPropertiesSer(p),
             back |-> PartialPropertiesDe(PartialPropertiesSer(p))]
  /\ UNCHANGED session

\* defaults::duration_100ms, in milliseconds
duration_100ms == 100

\* defaults::def_false
def_false == TRUE

\* impl Default for SubscriptionOptions
SubscriptionOptionsDefault ==
  [periodic |-> duration_100ms, all |-> def_false, topicsonly |-> def_false,
   prefix |-> def_false]

\* #[derive(Deserialize)] of SubscriptionOptions: a key that is absent takes
\* the default = ".." of its field.  periodic is kept in milliseconds (the
\* JSON number is in seconds, Duration::from_secs_f64).
SubscriptionOptionsDe(obj) ==
  [periodic |-> IF "periodic" \in DOMAIN obj THEN obj.periodic ELSE duration_100ms,
   all |-> IF "all" \in DOMAIN obj THEN obj.all ELSE def_false,
   topicsonly |-> IF "topicsonly" \in DOMAIN obj THEN obj.topicsonly ELSE def_false,
   prefix |-> IF "prefix" \in DOMAIN obj THEN obj.prefix ELSE def_false]

\* the JSON objects {"periodic": .., "all": .., "topicsonly": .., "prefix": ..}
\* with any of the keys left out
OptionObjects ==
  {[k \in DOMAIN f \cup (IF per = <<>> THEN {} ELSE {"periodic"}) |->
       IF k = "periodic" THEN per[1] ELSE f[k]] :
     f \in UNION {[K -> BOOLEAN] : K \in SUBSET {"all", "topicsonly", "prefix"}},
     per \in {<<>>, <<50>>, <<1000>>}}

\* serde_json::from_value::<SubscriptionOptions>(obj) and
\* SubscriptionOptions::default()
CallSubscriptionOptions(obj) ==
  /\ Fresh
  /\ op' = [fn |-> "subscription_options", obj |-> obj]
  /\ out' = [de |-> SubscriptionOptionsDe(obj), default |-> SubscriptionOptionsDefault]
  /\ UNCHANGED session

LibNext ==
  \/ Fresh /\ \E variant \in Variants, name \in ConvertNames :
       \E x \in Payloads(variant) : CallConvert(Data(variant, x), name)
  \/ Fresh /\ \E variant \in Variants, topic_id \in FrameTopics, timestamp \in FrameTimes :
       \E x \in Payloads(variant) : CallRoundTrip(Frame(topic_id, timestamp, Data(variant, x)))
  \/ Fresh /\ \E variant \in Variants, topic_id \in FrameTopics, timestamp \in FrameTimes,
                 declared \in DeclaredIds :
       \E x \in Payloads(variant) :
          CallDeserialize(topic_id, timestamp, declared, Data(variant, x))
  \/ Fresh /\ \E stream \in {<<>>} \cup {<<b>> : b \in 0..255} : CallReadOptions(stream)
  \/ Fresh /\ \E width \in {4, 8}, endian \in {"big", "little"} :
       \E count \in 1..(width + 1) :
          \E stream \in VarStreams(count) : CallReadVarlen(width, stream, endian, count)
  \/ Fresh /\ \E entry_id \in {1, 7}, ty \in Variants :
       \E data \in DataPayloads(ty) : CallGetData(entry_id, data, ty)
  \/ Fresh /\ \E endian \in {"big", "little"}, entry_id \in {0, 1, 7}, count \in {1, 40} :
       \E stream \in ControlStreams(endian) : CallPayload(stream, endian, entry_id, count)
  \/ Fresh /\ \E persistent, retained \in {<<>>, <<FALSE>>, <<TRUE>>} :
       CallPartialProperties([persistent |-> persistent, retained |-> retained])
  \/ Fresh /\ \E obj \in OptionObjects : CallSubscriptionOptions(obj)

LibSpec == Init /\ [][LibNext]_vars

\* ================================================================ claims

\* C1: a close event delivered while the session is not ready invokes no
\* close callback and schedules nothing; a close event delivered while it is
\* ready invokes each registered close callback exactly once, in order, and
\* schedules exactly one reconnect.
C1_CloseEvent ==
  [][(sockState # "closed" /\ sockState' = "closed") =>
       IF ready
       THEN /\ fired' = [i \in 1..Len(close_callbacks) |->
                          Call("close", close_callbacks[i], NoArg)]
            /\ reconnects' = reconnects + 1
       ELSE /\ fired' = <<>>
            /\ reconnects' = reconnects]_vars

C1_Witness ==
  /\ ev.kind = "close"
  /\ sockState = "closed"
  /\ Len(close_callbacks) >= 2
  /\ Len(fired) = Len(close_callbacks)
  /\ reconnects = 1

\* C2: a socket error event delivered while the session is already not
\* ready invokes no close callback.
C2_ErrorWhileNotReady ==
  [][(sockState # "failed" /\ sockState' = "failed" /\ ~ready) => fired' = <<>>]_vars

\* C3: once the error/close events of a connection have been handled, a
\* reconnect is scheduled: the session is never left with a closed socket
\* and no pending backoff timer.
C3_ReconnectScheduled ==
  sockState = "closed" => reconnects > 0

\* C4: in every state where the current socket has errored or closed, no
\* periodic timesync timer is active.
C4_TimerCancelled ==
  sockState \in {"failed", "closed"} => intervals = {}

\* C5: ready holds only if a timesync reply has arrived on the current
\* socket since it opened; a socket that is still connecting is not ready.
C5_ReadyOnlyAfterSync ==
  /\ ready => (ws = "Some" /\ synced)
  /\ sockState = "connecting" => ~ready

\* ready again on a reconnected socket (periodic = 2: the second interval
\* handle, so the second socket that opened) after its own sync reply
C5_Witness ==
  /\ ev.kind = "binary"
  /\ ready
  /\ synced
  /\ periodic = 2
  /\ fired = CallAll("ready", ready_callbacks, NoArg)

\* C6: no per-topic data callback is invoked for an inbound binary frame
\* while the session is not ready.
C6_NoDataBeforeReady ==
  [][(ev'.kind = "binary" /\ ~ready) =>
       \A i \in 1..Len(fired') : fired'[i].slot # "sub"]_vars

\* the names paired with topic id t that have a stored callback
Routed(t) == {n \in Names : <<n, t>> \in topic_names /\ sub_callbacks[n] # NoFn}

C8_SingleSlot ==
  [][/\ (ev'.kind = "subscribe" /\ ~ev'.panic) =>
          \A n \in SubNames, f \in Fns, u \in Uids : Subscribe(n, f, u) =>
             /\ sub_callbacks'[n] = f
             /\ \A m \in Names \ {n} : sub_callbacks'[m] = sub_callbacks[m]
             /\ Len(sent') = 1
             /\ sent'[1].json.v[1].v.method = "subscribe"
             /\ sent'[1].json.v[1].v.params.topics = <<n>>
             /\ sent'[1].json.v[1].v.params.subuid = u
             /\ ev'.ret = u
     /\ ev'.kind = "binary" =>
          \A g \in Frames, now \in LocalNow : OnBinary(g, now) =>
             \A i \in 1..Len(fired') :
                fired'[i].slot = "sub" =>
                   \E n \in Names : /\ <<n, g.topic>> \in topic_names
                                    /\ fired'[i].fn = sub_callbacks[n]]_vars

C8_Witness ==
  /\ ev.kind = "subscribe"
  /\ ~ev.panic
  /\ ev.old = "f1"
  /\ \E n \in Names : sent = <<send_json(SubscribeMsg(n, ev.ret))>> /\ sub_callbacks[n] = "f2"

\* C9: after an inbound Announce{name, id} the map pairs name with id, and
\* after an inbound Unannounce{name, id} the map holds neither the name nor
\* the id.
C9_UnannounceInvalidates ==
  [][ev'.kind = "text" =>
       \A b \in Batches : (OnText(b) /\ b # <<>>) =>
          LET last == b[Len(b)]
          IN /\ last.method = "announce" => <<last.name, last.id>> \in topic_names'
             /\ last.method = "unannounce" =>
                  \A p \in topic_names' : p[1] # last.name /\ p[2] # last.id]_vars

\* the listener list add_event_listener stores under an event name
ListenersOf(method) ==
  CASE method = "announce" -> announce_callbacks
    [] method = "unannounce" -> unannounce_callbacks
    [] method = "properties" -> properties_callbacks

\* C10: every inbound Announce, Unannounce or Properties message invokes
\* every listener registered under its name exactly once.
C10_FanOut ==
  [][ev'.kind = "text" =>
       \A b \in Batches : OnText(b) =>
          \A s \in {"announce", "unannounce", "properties"}, g \in Listeners :
             Cardinality({i \in 1..Len(fired') : fired'[i].slot = s /\ fired'[i].fn = g})
               = Cardinality({i \in 1..Len(b) : b[i].method = s})
                 * Cardinality({j \in 1..Len(ListenersOf(s)) : ListenersOf(s)[j] = g})]_vars

\* C11: a timesync reply with server timestamp S, echoed send time L and
\* arrival time N >= L sets the offset to S - round((N - L) / 2) - L, for
\* every S, L and N in the microsecond range whose offset an i32 can hold.
C11_Offset ==
  [][ev'.kind = "binary" =>
       \A f \in ClockFrames, now \in ClockNow :
          (OnBinary(f, now) /\ WLeq(f.val.n, now)) =>
             LET exact == WSub(WSub(f.ts, RoundHalf(WSub(now, f.val.n))), f.val.n)
             IN Fits(exact) => WOf(offs') = exact]_vars

\* C12: after a clock sync, every data frame send_data hands to the socket
\* carries the timestamp elapsed + offs, whenever that sum is a u32.
C12_FrameTimestamp ==
  [][(ev'.kind = "send_data" /\ synced /\ sent' # <<>>) =>
       \A pubid \in PubIds, ty \in ClockTypes, v \in SendValues, now \in ClockNow :
          SendData(pubid, ty, v, now) =>
             LET exact == WAdd(now, WOf(offs))
             IN (0 <= exact.hi /\ exact.hi < Base) => sent'[1].ts = exact]_vars

\* C13: decoding the encoding of a frame that holds a value v, of any of
\* the 15 variants, succeeds and gives the same topic, timestamp, variant
\* and payload.
C13_RoundTrip ==
  op.fn = "roundtrip" =>
    /\ out.ok
    /\ out.val.topic_id = op.frame.topic_id
    /\ out.val.timestamp = op.frame.timestamp
    /\ out.val.data.variant = op.frame.data.variant
    /\ out.val.data.data = op.frame.data.data

\* C14: decoding a frame fails whenever the type id it declares is unknown
\* or is not the id of the value it carries.
C14_TypeMismatch ==
  op.fn = "deserialize" =>
    ((~from_id(op.declared).ok \/ op.declared # get_id(op.v)) => ~out.ok)

\* the alias groups of the wire type names
AliasGroups == {{"raw", "rpc", "msgpack", "protobuf"}, {"string", "json"}}

\* C15: v.convert(n) succeeds exactly when n is v's own name or shares an
\* alias group with it; it then gives the variant named n with v's payload,
\* and converting that back to v's name gives v; when it fails the error
\* names v's type and n.
C15_Convert ==
  op.fn = "convert" =>
    LET own == get_name(op.v)
        allowed == op.name = own \/ \E g \in AliasGroups : own \in g /\ op.name \in g
    IN /\ out.ok <=> allowed
       /\ out.ok =>
            /\ get_name(out.val) = op.name
            /\ out.val.data = op.v.data
            /\ convert(out.val, own).ok
            /\ convert(out.val, own).val.variant = op.v.variant
            /\ convert(out.val, own).val.data = op.v.data
       /\ ~out.ok => out.err.from = own /\ out.err.to = op.name

\* Raw(b) converted to "rpc" is Rpc(b)
C15_Witness ==
  /\ op.fn = "convert"
  /\ op.v.variant = "Raw"
  /\ op.v.data = <<255>>
  /\ op.name = "rpc"
  /\ out.ok
  /\ out.val.variant = "Rpc"
  /\ out.val.data = <<255>>

\* C16: an inbound message that fails to decode (an ArrayBuffer that is no
\* frame, a string that is no batch of known messages, a topic -1 reply whose
\* value is no number) is reported, without a panic, and leaves the session
\* state as it was.
C16_DecodeErrors ==
  [][(\/ ev'.kind \in {"binary_undecodable", "text_undecodable"}
      \/ /\ ev'.kind = "binary"
         /\ \E f \in Frames, now \in LocalNow :
               OnBinary(f, now) /\ f.topic = -1 /\ ~IsNumber(f.val))
     => /\ ev'.log # "none"
        /\ ~ev'.panic
        /\ UNCHANGED sessionVars]_vars

\* C17: subscribe, send_data or timesync called while the socket cannot
\* send (none yet, or still connecting) does not abort: it leaves the session
\* not ready with a reconnect scheduled.
C17_SendFailure ==
  [][(ev'.kind \in {"subscribe", "send_data", "timesync"} /\ SendPanics)
     => /\ ~ev'.panic
        /\ ~ready'
        /\ reconnects' > 0]_vars

\* the invocation did not pass in silence: it failed, or wrote a log line
Surfaced(e) == e.panic \/ e.log # "none"

\* C18: an event without a registered callback is surfaced on the call that
\* triggers it: a data frame on an announced topic whose name has no stored
\* callback, an announce, unannounce or properties message with no listener,
\* add_event_listener with a name that has no list.
C18_UnregisteredSlot ==
  [][/\ ev'.kind = "binary" =>
          \A f \in Frames, now \in LocalNow :
             (/\ OnBinary(f, now)
              /\ f.topic # -1
              /\ GetByRight(topic_names, f.topic) # {}
              /\ Routed(f.topic) = {}) => Surfaced(ev')
     /\ ev'.kind = "text" =>
          \A b \in Batches :
             (OnText(b) /\ \E i \in 1..Len(b) : ListenersOf(b[i].method) = <<>>)
                => Surfaced(ev')
     /\ ev'.kind = "add_event_listener" =>
          \A name \in EventNames, g \in Listeners :
             (/\ AddEventListener(name, g)
              /\ name \notin {"announce", "unannounce", "properties", "close"})
                => Surfaced(ev')]_vars

\* C19: when the sum of State::now overflows, send_data does not panic; it
\* either sends nothing and reports a clock error, or sends a frame whose
\* timestamp is not the overflowed sum.
C19_ClockOverflow ==
  [][ev'.kind = "send_data" =>
       \A pubid \in PubIds, ty \in ClockTypes, v \in SendValues, now \in ClockNow :
          LET sum == WAdd(WOf(F64ToI32(now)), WOf(offs))
          IN (SendData(pubid, ty, v, now) /\ FillTypeId(ty) # -1 /\ ~Fits(sum)) =>
                /\ ~ev'.panic
                /\ sent' = <<>> => ev'.log = "error"
                /\ sent' # <<>> => sent'[1].ts # I32ToU32(Wrap(sum))]_vars

\* C20: for every control byte b the header gives entry-id length
\* ((b >> 0) & 3) + 1, payload-size length ((b >> 2) & 3) + 1 and timestamp
\* length ((b >> 4) & 7) + 1.
C20_HeaderLayout ==
  (op.fn = "read_options" /\ op.stream # <<>>) =>
    LET b == op.stream[1]
    IN /\ out.ok
       /\ out.val.entry_id_len = (b % 4) + 1
       /\ out.val.payload_size_len = ((b \div 4) % 4) + 1
       /\ out.val.timestamp_len = ((b \div 16) % 8) + 1

\* C21: read_varlen_u32 with a count of 1..4 and read_varlen_u64 with a count
\* of 1..8 return the sum of b_i * 256^i of the count bytes b_0.. they read,
\* whatever endianness the caller passes.
C21_Varint ==
  (/\ op.fn = "read_varlen"
   /\ op.count <= op.width
   /\ Len(op.stream) >= op.count) =>
    /\ out.ok
    /\ out.val = [i \in 1..op.width |-> IF i <= op.count THEN op.stream[i] ELSE 0]

\* the width of one element of a type's payload
WidthOf(ty) ==
  CASE ty \in {"Boolean", "BooleanArray"} -> 1
    [] ty \in {"Double", "Int", "DoubleArray", "IntArray"} -> 8
    [] ty \in {"Float", "FloatArray"} -> 4

\* a payload of the size its type requires
WellSized(ty, data) ==
  CASE ty \in {"Boolean", "Double", "Int", "Float"} -> Len(data) = WidthOf(ty)
    [] ty \in {"BooleanArray", "DoubleArray", "IntArray", "FloatArray"} ->
         Len(data) % WidthOf(ty) = 0
    [] ty = "StringArray" -> data \in StrArrays
    [] OTHER -> TRUE

C23_Malformed ==
  /\ (/\ op.fn = "get_data"
      /\ \/ op.ty \in {"Boolean", "Double", "Int", "Float"} /\ Len(op.data) < WidthOf(op.ty)
         \/ op.ty \in {"DoubleArray", "IntArray", "FloatArray"} /\ ~WellSized(op.ty, op.data)
         \/ op.ty = "StringArray" /\ op.data \in Overruns)
       => (~out.ok /\ "panic" \notin DOMAIN out)
  /\ (/\ op.fn = "payload"
      /\ op.entry_id = 0
      /\ op.stream # <<>>
      /\ op.stream[1] \notin {0, 1, 2})
       => (~out.ok /\ "panic" \notin DOMAIN out)

\* the API calls that send a text message, and the method each sends
ApiMethod ==
  [subscribe |-> "subscribe", sub_topic_list |-> "subscribe", publish |-> "publish",
   unsubscribe |-> "unsubscribe", unpublish |-> "unpublish"]

\* C24: every text message handed to the socket is a JSON array holding
\* exactly one object with the keys method and params, and each of subscribe,
\* sub_topic_list, publish, unsubscribe and unpublish that returns has handed
\* over one such message.
C24_BatchFraming ==
  /\ \A i \in 1..Len(sent) :
        sent[i].ch = "text" =>
          /\ sent[i].json.k = "array"
          /\ Len(sent[i].json.v) = 1
          /\ sent[i].json.v[1].k = "object"
          /\ DOMAIN sent[i].json.v[1].v = {"method", "params"}
  /\ (ev.kind \in DOMAIN ApiMethod /\ ~ev.panic) =>
        Len(sent) = 1 /\ sent[1].ch = "text"

C24_Witness ==
  /\ ev.kind = "publish"
  /\ ~ev.panic
  /\ Len(sent) = 1
  /\ sent[1].json.k = "array"
  /\ Len(sent[1].json.v) = 1
  /\ sent[1].json.v[1].v.method = "publish"
  /\ sent[1].json.v[1].v.params.pubuid = ev.ret

\* C25: on an open socket every API call hands exactly one message, its
\* own, to the socket before it returns, whatever socket and timer events
\* ran before it and whether or not the session is ready; no other invocation
\* hands over an API message (a timer or the open event hands over a timesync
\* probe, a socket event nothing).  The messages of a connection are then the
\* calls in call order.
C25_CallOrder ==
  /\ (ev.kind \in DOMAIN ApiMethod /\ sockState = "open") =>
        /\ ~ev.panic
        /\ Len(sent) = 1
        /\ sent[1].ch = "text"
        /\ sent[1].json.v[1].v.method = ApiMethod[ev.kind]
        /\ ev.kind \in {"subscribe", "sub_topic_list"} =>
              sent[1].json.v[1].v.params.subuid = ev.ret
        /\ ev.kind = "publish" => sent[1].json.v[1].v.params.pubuid = ev.ret
  /\ (ev.kind = "send_data" /\ sockState = "open") =>
        /\ ~ev.panic
        /\ Len(sent) = 1
        /\ sent[1].ch = "binary"
        /\ sent[1].topic \in PubIds
  /\ (ev.kind \notin DOMAIN ApiMethod \cup {"send_data"}) =>
        \A i \in 1..Len(sent) : sent[i].ch = "binary" /\ sent[i].topic = -1

\* an unpublish on a socket that is open and not yet ready
C25_Witness ==
  /\ ev.kind = "unpublish"
  /\ sockState = "open"
  /\ ~ready
  /\ Len(sent) = 1
  /\ sent[1].json.v[1].v.method = "unpublish"

\* C30: unsubscribe(uid) and unpublish(uid) that return have handed exactly
\* one Unsubscribe / Unpublish message carrying uid to the socket, and change
\* nothing of the session, for a uid subscribe or publish returned and for one
\* they never returned; they wait for nothing.
C30_FireAndForget ==
  [][/\ ev'.kind = "unsubscribe" =>
          \A uid \in PubIds : Unsubscribe(uid) =>
             /\ UNCHANGED <<ws, sockState, sessionVars, intervals, reconnects, synced>>
             /\ fired' = <<>>
             /\ ~ev'.panic =>
                   sent' = <<send_json(TextMsg("unsubscribe", [subuid |-> uid]))>>
     /\ ev'.kind = "unpublish" =>
          \A uid \in PubIds : Unpublish(uid) =>
             /\ UNCHANGED <<ws, sockState, sessionVars, intervals, reconnects, synced>>
             /\ fired' = <<>>
             /\ ~ev'.panic =>
                   sent' = <<send_json(TextMsg("unpublish", [pubuid |-> uid]))>>]_vars

\* unsubscribe of a uid no subscribe returned, with a callback stored
C30_Witness ==
  /\ ev.kind = "unsubscribe"
  /\ ~ev.panic
  /\ Len(sent) = 1
  /\ sent[1].json.v[1].v.params.subuid = 0
  /\ sub_callbacks["/a"] # NoFn
  /\ topic_names # {}
  /\ ready

\* C29: the open event of a socket hands one timesync probe to it at once
\* and arms one interval timer; while the socket is open that timer is the
\* only one armed, and each time it fires one probe is handed over; a probe
\* is a binary frame with topic -1, timestamp 0 and the local elapsed
\* microseconds as its value; none is handed over before the socket opened.
C29_Probing ==
  [][/\ ev'.kind = "open" =>
          \A now \in LocalNow : SocketOpen(now) =>
             /\ Len(sent') = 1
             /\ sent'[1].ch = "binary" /\ sent'[1].topic = -1
             /\ sent'[1].ts = 0 /\ sent'[1].val = IntVal(now)
             /\ periodic' \notin intervals
     /\ sockState' = "open" => intervals' = {periodic'}
     /\ (ev'.kind = "timesync" /\ sockState = "open") =>
          \A h \in intervals, now \in LocalNow : TimesyncTick(h, now) =>
             /\ Len(sent') = 1
             /\ sent'[1].ch = "binary" /\ sent'[1].topic = -1
             /\ sent'[1].ts = 0 /\ sent'[1].val = IntVal(now)
     /\ sockState' \in {"none", "connecting"} =>
          \A i \in 1..Len(sent') : sent'[i].ch = "binary" => sent'[i].topic # -1]_vars

\* a probe of the interval timer of the second socket that opened
C29_Witness ==
  /\ ev.kind = "timesync"
  /\ sockState = "open"
  /\ periodic = 2
  /\ intervals = {2}
  /\ Len(sent) = 1
  /\ sent[1].topic = -1

\* C27: PartialProperties serializes to an object with the key persistent
\* exactly when persistent is Some and the key retained exactly when retained
\* is Some, each with the value set and no other key (Some(true), None gives
\* {"persistent": true}), and deserializing that object gives the value back.
C27_PartialProperties ==
  op.fn = "partial_properties" =>
    LET p == op.p
        o == out.json
    IN /\ DOMAIN o \subseteq {"persistent", "retained"}
       /\ ("persistent" \in DOMAIN o) <=> (p.persistent # <<>>)
       /\ ("retained" \in DOMAIN o) <=> (p.retained # <<>>)
       /\ (p.persistent # <<>>) => (o.persistent = p.persistent[1])
       /\ (p.retained # <<>>) => (o.retained = p.retained[1])
       /\ out.back = p

C27_Witness ==
  /\ op.fn = "partial_properties"
  /\ op.p = [persistent |-> <<TRUE>>, retained |-> <<>>]
  /\ DOMAIN out.json = {"persistent"}
  /\ out.json.persistent = TRUE
  /\ out.back = op.p

\* C28: a SubscriptionOptions deserialized from an object without the key
\* all, topicsonly or prefix has false for it, one without periodic has 0.1
\* seconds, and SubscriptionOptions::default() has false, false, false and
\* 0.1 seconds.
C28_Defaults ==
  op.fn = "subscription_options" =>
    /\ \A k \in {"all", "topicsonly", "prefix"} :
          (k \notin DOMAIN op.obj) => (out.de[k] = FALSE)
    /\ ("periodic" \notin DOMAIN op.obj) => (out.de.periodic = 100)
    /\ \A k \in {"all", "topicsonly", "prefix"} : out.default[k] = FALSE
    /\ out.default.periodic = 100

\* C26: once State.ready is set while the task of _nt4_start waits on
\* StateFuture, the task completes, whatever happens to the session
\* afterwards; and it completes with true only.
C26_Awaiting ==
  /\ (waiter = "Pending" /\ ready) ~> (waiter = "Ready(true)")
  /\ [](waiter \in {"none", "Pending", "Ready(true)"})

\* C31: after every step each name of the topic map is paired with one id
\* and each id with one name, and the name of the id of a name is that name;
\* an Announce of (n, i) leaves the pair (n, i), no other pair with n or i,
\* and every earlier pair that held neither.
C31_OneToOne ==
  [][LET m == topic_names'
     IN /\ \A p, q \in m : (p[1] = q[1] \/ p[2] = q[2]) => p = q
        /\ \A p \in m : {q[1] : q \in {r \in m : r[2] = p[2]}} = {p[1]}
        /\ ev'.kind = "text" =>
             \A batch \in Batches :
                (OnText(batch) /\ batch # <<>> /\ batch[Len(batch)].method = "announce") =>
                   LET n == batch[Len(batch)].name
                       i == batch[Len(batch)].id
                   IN /\ <<n, i>> \in m
                      /\ \A p \in m : (p[1] = n \/ p[2] = i) => p = <<n, i>>
                      /\ Len(batch) = 1 =>
                           \A p \in topic_names : (p[1] # n /\ p[2] # i) => p \in m]_vars

C31_Witness ==
  /\ ev.kind = "text"
  /\ fired # <<>>
  /\ fired[1].slot = "announce"
  /\ fired[1].arg[1] = "/a"
  /\ topic_names = {<<"/a", 1>>, <<"/b", -1>>}

\* C32: of two calls of subscribe, sub_topic_list or publish that return one
\* after the other, with no unsubscribe or unpublish between them, the second
\* returns a uid other than the first's.
C32_DistinctUids ==
  [][(/\ ev.kind \in {"subscribe", "sub_topic_list", "publish"}
      /\ ~ev.panic
      /\ ev'.kind \in {"subscribe", "sub_topic_list", "publish"}
      /\ ~ev'.panic)
     => ev'.ret # ev.ret]_vars

\* C33: an error event, a close event, the reconnect timer and the open
\* event of the new socket leave the topic map and the stored subscription
\* callbacks as they were, and hand no text message to the socket.
C33_DisconnectKeeps ==
  [][ev'.kind \in {"error", "close", "reconnect", "open"} =>
       /\ topic_names' = topic_names
       /\ sub_callbacks' = sub_callbacks
       /\ \A i \in 1..Len(sent') : sent'[i].ch # "text"]_vars

C33_Witness ==
  /\ ev.kind = "reconnect"
  /\ sockState = "connecting"
  /\ topic_names = {<<"/a", 1>>}
  /\ sub_callbacks["/a"] = "f1"

\* C34: the handler of every inbound binary frame on topic -1 leaves ready
\* set and has called each registered ready callback once, in order, whether
\* or not ready was set before.
C34_EveryReply ==
  [][\A f \in Frames, now \in LocalNow :
        (f.topic = -1 /\ OnBinary(f, now)) =>
           /\ ready'
           /\ fired' = CallAll("ready", ready_callbacks, NoArg)]_vars

====
